---- MODULE Spec2Model ----
(***************************************************************************)
(* The translation unit rooted at crates/glfw3-sys/bindgen/platform/x11.h, *)
(* processed directive by directive the way a C front end does: typedefs   *)
(* enter the typedef table, #define enters the macro table, #include       *)
(* pushes the included file, declarations resolve the type names they use. *)
(* x11.h is translated line by line from the source.  The two vendored     *)
(* headers it includes and the operating-system headers those may pull in  *)
(* are not part of the source tree; they are modelled from the design      *)
(* document (guarded includes, guarded accessor declarations).             *)
(***************************************************************************)
EXTENDS Integers, Sequences, FiniteSets, TLC

VARIABLES
    stack,      \* include stack: <<[file, pc]>>, last element is the file being read
    macros,     \* names of the macros defined so far
    typedefs,   \* typedef declarations processed so far, in order: [name, type, file]
    decls,      \* function declarations processed so far: [fn, file, handle, type]
    included,   \* files entered through #include, in order
    errors,     \* diagnostics issued so far: [kind, name]
    halted,     \* a fatal diagnostic ended the translation
    omitted,    \* input: the #define lines of x11.h left out of this build
    osHeaders   \* input: the operating-system headers are installed

vars == <<stack, macros, typedefs, decls, included, errors, halted, omitted, osHeaders>>

----------------------------------------------------------------------------
(* Types.  A type is a base and a number of pointer levels.               *)

Void      == [base |-> "void", ptr |-> 0]
VoidPtr   == [base |-> "void", ptr |-> 1]
Concrete  == [base |-> "concrete", ptr |-> 0]
Undefined == [base |-> "undefined", ptr |-> 0]

\* void is the one base that has no members and cannot be completed
Incomplete(t) == t.base = "void"

PointerTo(t, n) == [base |-> t.base, ptr |-> t.ptr + n]

----------------------------------------------------------------------------
(* Directives.                                                             *)

NoGuard == [ifdef |-> {}, ifndef |-> {}]

Typedef(n, t) ==
    [op |-> "typedef", name |-> n, type |-> t, ptr |-> 0, guard |-> NoGuard]
Define(m) ==
    [op |-> "define", name |-> m, type |-> Undefined, ptr |-> 0, guard |-> NoGuard]
Include(f) ==
    [op |-> "include", name |-> f, type |-> Undefined, ptr |-> 0, guard |-> NoGuard]
Blank ==
    [op |-> "blank", name |-> "", type |-> Undefined, ptr |-> 0, guard |-> NoGuard]
\* a function declaration fn whose signature uses handle type h behind p pointer levels
Declare(fn, h, p) ==
    [op |-> "declare", name |-> fn, type |-> [base |-> h, ptr |-> 0], ptr |-> p,
     guard |-> NoGuard]
\* d inside #if defined(all of yes) && !defined(any of no)
Guarded(d, yes, no) == [d EXCEPT !.guard = [ifdef |-> yes, ifndef |-> no]]

----------------------------------------------------------------------------
(* Names.                                                                  *)

GLFW_INCLUDE_NONE        == "GLFW_INCLUDE_NONE"
GLFW_NATIVE_INCLUDE_NONE == "GLFW_NATIVE_INCLUDE_NONE"
GLFW_EXPOSE_NATIVE_X11   == "GLFW_EXPOSE_NATIVE_X11"
GLFW_EXPOSE_NATIVE_GLX   == "GLFW_EXPOSE_NATIVE_GLX"

MainFile      == "x11.h"
Glfw3H        == "../../vendor/glfw/include/GLFW/glfw3.h"
Glfw3NativeH  == "../../vendor/glfw/include/GLFW/glfw3native.h"
OsGraphicsH   == "<os graphics api>"
OsX11H        == "<os x11>"
OsGlxH        == "<os glx>"

----------------------------------------------------------------------------
(* x11.h, line by line.                                                    *)

\* x11.h with Display declared as a pointer like the other handles
X11_H_DisplayAsPointer ==
    << Typedef("Display", VoidPtr),
       Typedef("RRCrtc", VoidPtr),
       Typedef("RROutput", VoidPtr),
       Typedef("Window", VoidPtr),
       Blank,
       Typedef("GLXContext", VoidPtr),
       Typedef("GLXWindow", VoidPtr),
       Blank,
       Define(GLFW_INCLUDE_NONE),
       Define(GLFW_NATIVE_INCLUDE_NONE),
       Define(GLFW_EXPOSE_NATIVE_X11),
       Define(GLFW_EXPOSE_NATIVE_GLX),
       Blank,
       Include(Glfw3H),
       Include(Glfw3NativeH) >>

\* x11.h exposing EGL where it exposes GLX
X11_H_ExposeEGL ==
    << Typedef("Display", Void),
       Typedef("RRCrtc", VoidPtr),
       Typedef("RROutput", VoidPtr),
       Typedef("Window", VoidPtr),
       Blank,
       Typedef("GLXContext", VoidPtr),
       Typedef("GLXWindow", VoidPtr),
       Blank,
       Define(GLFW_INCLUDE_NONE),
       Define(GLFW_NATIVE_INCLUDE_NONE),
       Define(GLFW_EXPOSE_NATIVE_X11),
       Define("GLFW_EXPOSE_NATIVE_EGL"),
       Blank,
       Include(Glfw3H),
       Include(Glfw3NativeH) >>

\* x11.h with one more opaque typedef than the accessors use
X11_H_ExtraTypedef ==
    << Typedef("Display", Void),
       Typedef("RRCrtc", VoidPtr),
       Typedef("RROutput", VoidPtr),
       Typedef("Window", VoidPtr),
       Typedef("Pixmap", VoidPtr),
       Typedef("GLXContext", VoidPtr),
       Typedef("GLXWindow", VoidPtr),
       Blank,
       Define(GLFW_INCLUDE_NONE),
       Define(GLFW_NATIVE_INCLUDE_NONE),
       Define(GLFW_EXPOSE_NATIVE_X11),
       Define(GLFW_EXPOSE_NATIVE_GLX),
       Blank,
       Include(Glfw3H),
       Include(Glfw3NativeH) >>

\* x11.h with Window declared as a concrete (integer) type
X11_H_ConcreteWindow ==
    << Typedef("Display", Void),
       Typedef("RRCrtc", VoidPtr),
       Typedef("RROutput", VoidPtr),
       Typedef("Window", Concrete),
       Blank,
       Typedef("GLXContext", VoidPtr),
       Typedef("GLXWindow", VoidPtr),
       Blank,
       Define(GLFW_INCLUDE_NONE),
       Define(GLFW_NATIVE_INCLUDE_NONE),
       Define(GLFW_EXPOSE_NATIVE_X11),
       Define(GLFW_EXPOSE_NATIVE_GLX),
       Blank,
       Include(Glfw3H),
       Include(Glfw3NativeH) >>

\* x11.h without its opaque typedefs
X11_H_NoTypedefs ==
    << Blank,
       Blank,
       Blank,
       Blank,
       Blank,
       Blank,
       Blank,
       Blank,
       Define(GLFW_INCLUDE_NONE),
       Define(GLFW_NATIVE_INCLUDE_NONE),
       Define(GLFW_EXPOSE_NATIVE_X11),
       Define(GLFW_EXPOSE_NATIVE_GLX),
       Blank,
       Include(Glfw3H),
       Include(Glfw3NativeH) >>

\* x11.h without the GLXContext typedef
X11_H_MissingGLXContext ==
    << Typedef("Display", Void),
       Typedef("RRCrtc", VoidPtr),
       Typedef("RROutput", VoidPtr),
       Typedef("Window", VoidPtr),
       Blank,
       Blank,
       Typedef("GLXWindow", VoidPtr),
       Blank,
       Define(GLFW_INCLUDE_NONE),
       Define(GLFW_NATIVE_INCLUDE_NONE),
       Define(GLFW_EXPOSE_NATIVE_X11),
       Define(GLFW_EXPOSE_NATIVE_GLX),
       Blank,
       Include(Glfw3H),
       Include(Glfw3NativeH) >>

\* x11.h with the public header included before the macro definitions
X11_H_IncludeFirst ==
    << Typedef("Display", Void),
       Typedef("RRCrtc", VoidPtr),
       Typedef("RROutput", VoidPtr),
       Typedef("Window", VoidPtr),
       Blank,
       Typedef("GLXContext", VoidPtr),
       Typedef("GLXWindow", VoidPtr),
       Blank,
       Include(Glfw3H),
       Define(GLFW_INCLUDE_NONE),
       Define(GLFW_NATIVE_INCLUDE_NONE),
       Define(GLFW_EXPOSE_NATIVE_X11),
       Define(GLFW_EXPOSE_NATIVE_GLX),
       Blank,
       Include(Glfw3NativeH) >>

X11_H ==
    << Typedef("Display", Void),
       Typedef("RRCrtc", VoidPtr),
       Typedef("RROutput", VoidPtr),
       Typedef("Window", VoidPtr),
       Blank,
       Typedef("GLXContext", VoidPtr),
       Typedef("GLXWindow", VoidPtr),
       Blank,
       Define(GLFW_INCLUDE_NONE),
       Define(GLFW_NATIVE_INCLUDE_NONE),
       Define(GLFW_EXPOSE_NATIVE_X11),
       Define(GLFW_EXPOSE_NATIVE_GLX),
       Blank,
       Include(Glfw3H),
       Include(Glfw3NativeH) >>

\* the handle type names x11.h declares
HandleNames == {"Display", "RRCrtc", "RROutput", "Window", "GLXContext", "GLXWindow"}

\* the macros x11.h defines
SuppressionMacros == {GLFW_INCLUDE_NONE, GLFW_NATIVE_INCLUDE_NONE}
ExposureDefined   == {GLFW_EXPOSE_NATIVE_X11, GLFW_EXPOSE_NATIVE_GLX}

----------------------------------------------------------------------------
(* The vendored headers and the headers of the operating system.           *)

\* exposure macros the native-interop header recognises
WindowingMacros ==
    {"GLFW_EXPOSE_NATIVE_WIN32", "GLFW_EXPOSE_NATIVE_COCOA",
     GLFW_EXPOSE_NATIVE_X11, "GLFW_EXPOSE_NATIVE_WAYLAND"}
ContextMacros ==
    {"GLFW_EXPOSE_NATIVE_WGL", "GLFW_EXPOSE_NATIVE_NSGL",
     GLFW_EXPOSE_NATIVE_GLX, "GLFW_EXPOSE_NATIVE_EGL"}

\* the platform pairs
Compatible(w, c) ==
    <<w, c>> \in {<<"GLFW_EXPOSE_NATIVE_WIN32", "GLFW_EXPOSE_NATIVE_WGL">>,
                  <<"GLFW_EXPOSE_NATIVE_COCOA", "GLFW_EXPOSE_NATIVE_NSGL">>,
                  <<GLFW_EXPOSE_NATIVE_X11, GLFW_EXPOSE_NATIVE_GLX>>,
                  <<"GLFW_EXPOSE_NATIVE_WAYLAND", "GLFW_EXPOSE_NATIVE_EGL">>}

\* the public header: the graphics API header unless suppressed, then the public API
GLFW3_H ==
    << Guarded(Include(OsGraphicsH), {}, {GLFW_INCLUDE_NONE}),
       Declare("glfwInit", "", 0) >>

\* the native-interop header: the real OS headers of each exposed backend unless
\* suppressed, then the accessors of each exposed backend
GLFW3NATIVE_H ==
    << Guarded(Include(OsX11H), {GLFW_EXPOSE_NATIVE_X11}, {GLFW_NATIVE_INCLUDE_NONE}),
       Guarded(Include(OsGlxH), {GLFW_EXPOSE_NATIVE_GLX}, {GLFW_NATIVE_INCLUDE_NONE}),
       Guarded(Declare("glfwGetX11Display", "Display", 1), {GLFW_EXPOSE_NATIVE_X11}, {}),
       Guarded(Declare("glfwGetX11Adapter", "RRCrtc", 0), {GLFW_EXPOSE_NATIVE_X11}, {}),
       Guarded(Declare("glfwGetX11Monitor", "RROutput", 0), {GLFW_EXPOSE_NATIVE_X11}, {}),
       Guarded(Declare("glfwGetX11Window", "Window", 0), {GLFW_EXPOSE_NATIVE_X11}, {}),
       Guarded(Declare("glfwGetGLXContext", "GLXContext", 0), {GLFW_EXPOSE_NATIVE_GLX}, {}),
       Guarded(Declare("glfwGetGLXWindow", "GLXWindow", 0), {GLFW_EXPOSE_NATIVE_GLX}, {}) >>

\* the real OS headers define the handle names as concrete types
OS_GRAPHICS_H == << Typedef("GLenum", Concrete) >>
OS_X11_H ==
    << Typedef("Display", Concrete), Typedef("Window", Concrete),
       Typedef("RRCrtc", Concrete), Typedef("RROutput", Concrete) >>
OS_GLX_H ==
    << Typedef("GLXContext", Concrete), Typedef("GLXWindow", Concrete) >>

OsFiles == {OsGraphicsH, OsX11H, OsGlxH}

\* x11.h with the #define lines of the macros in om left out
Variant(om) ==
    SelectSeq(X11_H, LAMBDA d : ~(d.op = "define" /\ d.name \in om))

Source(f) ==
    CASE f = MainFile     -> Variant(omitted)
      [] f = Glfw3H       -> GLFW3_H
      [] f = Glfw3NativeH -> GLFW3NATIVE_H
      [] f = OsGraphicsH  -> OS_GRAPHICS_H
      [] f = OsX11H       -> OS_X11_H
      [] f = OsGlxH       -> OS_GLX_H

\* a file the front end can open
Available(f) == f \in OsFiles => osHeaders

----------------------------------------------------------------------------
(* The front end.                                                          *)

Running == ~halted /\ stack # <<>>
Top     == stack[Len(stack)]
AtEnd   == Top.pc > Len(Source(Top.file))
Cur     == Source(Top.file)[Top.pc]
Active(d) == d.guard.ifdef \subseteq macros /\ d.guard.ifndef \cap macros = {}
At(kind) == Running /\ ~AtEnd /\ Active(Cur) /\ Cur.op = kind
Advance == [stack EXCEPT ![Len(stack)].pc = @ + 1]

TypedefNames == {typedefs[i].name : i \in 1..Len(typedefs)}

\* the type a typedef name denotes: that of its first declaration
Lookup(n) ==
    IF n \in TypedefNames
    THEN typedefs[CHOOSE i \in 1..Len(typedefs) :
                     /\ typedefs[i].name = n
                     /\ \A j \in 1..(i - 1) : typedefs[j].name # n].type
    ELSE Undefined

Init ==
    /\ stack = << [file |-> MainFile, pc |-> 1] >>
    /\ macros = {}
    /\ typedefs = <<>>
    /\ decls = <<>>
    /\ included = <<>>
    /\ errors = {}
    /\ halted = FALSE
    /\ omitted \in SUBSET SuppressionMacros
    /\ osHeaders \in BOOLEAN

\* typedef T name;  a name may be declared again only with the same type
DoTypedef ==
    /\ At("typedef")
    /\ typedefs' = Append(typedefs, [name |-> Cur.name, type |-> Cur.type, file |-> Top.file])
    /\ errors' = IF Cur.name \in TypedefNames /\ Lookup(Cur.name) # Cur.type
                 THEN errors \cup {[kind |-> "redefinition", name |-> Cur.name]}
                 ELSE errors
    /\ stack' = Advance
    /\ UNCHANGED <<macros, decls, included, halted, omitted, osHeaders>>

\* #define NAME
DoDefine ==
    /\ At("define")
    /\ macros' = macros \cup {Cur.name}
    /\ stack' = Advance
    /\ UNCHANGED <<typedefs, decls, included, errors, halted, omitted, osHeaders>>

\* #include of a file that exists: read it, then go on after the directive
DoInclude ==
    /\ At("include")
    /\ Available(Cur.name)
    /\ included' = Append(included, Cur.name)
    /\ stack' = Append(Advance, [file |-> Cur.name, pc |-> 1])
    /\ UNCHANGED <<macros, typedefs, decls, errors, halted, omitted, osHeaders>>

\* #include of a file that does not exist: fatal
IncludeMissing ==
    /\ At("include")
    /\ ~Available(Cur.name)
    /\ errors' = errors \cup {[kind |-> "file not found", name |-> Cur.name]}
    /\ halted' = TRUE
    /\ UNCHANGED <<stack, macros, typedefs, decls, included, omitted, osHeaders>>

\* a function declaration: the type name it uses must have been declared
DoDeclare ==
    /\ At("declare")
    /\ LET h == Cur.type.base
           t == IF h = "" THEN Undefined ELSE Lookup(h)
       IN /\ decls' = Append(decls,
                 [fn |-> Cur.name, file |-> Top.file, handle |-> h,
                  type |-> IF t = Undefined THEN Undefined ELSE PointerTo(t, Cur.ptr)])
          /\ errors' = IF h # "" /\ t = Undefined
                       THEN errors \cup {[kind |-> "unknown type name", name |-> h]}
                       ELSE errors
    /\ stack' = Advance
    /\ UNCHANGED <<macros, typedefs, included, halted, omitted, osHeaders>>

DoBlank ==
    /\ At("blank")
    /\ stack' = Advance
    /\ UNCHANGED <<macros, typedefs, decls, included, errors, halted, omitted, osHeaders>>

\* a directive inside a conditional group whose condition is false
SkipInactive ==
    /\ Running /\ ~AtEnd /\ ~Active(Cur)
    /\ stack' = Advance
    /\ UNCHANGED <<macros, typedefs, decls, included, errors, halted, omitted, osHeaders>>

\* end of the file being read: back to the including file
EndOfFile ==
    /\ Running /\ AtEnd
    /\ stack' = SubSeq(stack, 1, Len(stack) - 1)
    /\ UNCHANGED <<macros, typedefs, decls, included, errors, halted, omitted, osHeaders>>

Next ==
    \/ DoTypedef
    \/ DoDefine
    \/ DoInclude
    \/ IncludeMissing
    \/ DoDeclare
    \/ DoBlank
    \/ SkipInactive
    \/ EndOfFile

Spec == Init /\ [][Next]_vars

----------------------------------------------------------------------------
(* Outcomes.                                                               *)

Finished  == halted \/ stack = <<>>
Succeeded == stack = <<>> /\ ~halted /\ errors = {}
Failed    == Finished /\ errors # {}
Shipped   == omitted = {}

----------------------------------------------------------------------------
(* Properties.                                                             *)

DeclaredHandles == HandleNames \cap TypedefNames
FromMainFile ==
    {typedefs[i].name : i \in {j \in 1..Len(typedefs) : typedefs[j].file = MainFile}}
UsedHandles ==
    {decls[i].handle : i \in {j \in 1..Len(decls) :
                                 decls[j].file = Glfw3NativeH /\ decls[j].handle # ""}}
AtVendoredInclude == At("include") /\ Top.file = MainFile

C2_OneCompatibleExposurePair ==
    (AtVendoredInclude \/ included # <<>>) =>
        /\ macros \cap WindowingMacros = {GLFW_EXPOSE_NATIVE_X11}
        /\ macros \cap ContextMacros = {GLFW_EXPOSE_NATIVE_GLX}
        /\ \A w \in macros \cap WindowingMacros :
              \A c \in macros \cap ContextMacros : Compatible(w, c)

C2_Witness == Shipped /\ AtVendoredInclude /\ Cur.name = Glfw3H

\* C3: when the translation unit has been read to its end, the type names
\* x11.h declared are exactly the handle type names the enabled accessors of
\* the native-interop header use.
C3_DeclaredEqualsUsed ==
    (stack = <<>> /\ ~halted) => FromMainFile = UsedHandles

C3_Witness == Shipped /\ Succeeded /\ UsedHandles # {}

\* C4: every type x11.h declares has an incomplete base and no members, and
\* every enabled accessor uses its handle as a pointer to an incomplete type.
C4_PointerToIncomplete ==
    /\ \A i \in 1..Len(typedefs) :
          typedefs[i].file = MainFile => Incomplete(typedefs[i].type)
    /\ \A i \in 1..Len(decls) :
          decls[i].handle \in HandleNames =>
              Incomplete(decls[i].type) /\ decls[i].type.ptr >= 1

C4_Witness == Shipped /\ UsedHandles = HandleNames

\* C5: with both include-suppression macros left out the build ends failed,
\* and where the OS headers are installed every handle name is reported as
\* redefined with a different type.
C5_OmittingSuppressionFails ==
    (omitted = SuppressionMacros /\ Finished) =>
        /\ Failed
        /\ osHeaders =>
              \A h \in HandleNames : [kind |-> "redefinition", name |-> h] \in errors

C5_Witness ==
    /\ omitted = SuppressionMacros /\ osHeaders /\ stack = <<>>
    /\ [kind |-> "redefinition", name |-> "Display"] \in errors

\* C6: x11.h as shipped is read to the end without a diagnostic; every handle
\* name is declared exactly once and every accessor finds its type declared.
C6_ShippedBuildSucceeds ==
    Shipped =>
        /\ errors = {} /\ ~halted
        /\ stack = <<>> =>
              /\ \A h \in HandleNames :
                    Cardinality({i \in 1..Len(typedefs) : typedefs[i].name = h}) = 1
              /\ \A i \in 1..Len(decls) :
                    decls[i].handle # "" => decls[i].type # Undefined
              /\ UsedHandles = HandleNames

C6_Witness == Shipped /\ Succeeded /\ included = <<Glfw3H, Glfw3NativeH>>

\* C9: once a vendored header has been entered, all six typedefs and every
\* macro definition of x11.h have been processed, and the public header was
\* entered before the native-interop header.
C9_DeclarationsBeforeIncludes ==
    included # <<>> =>
        /\ HandleNames \subseteq FromMainFile
        /\ (SuppressionMacros \ omitted) \cup ExposureDefined \subseteq macros
        /\ included[1] = Glfw3H
        /\ \A i \in 1..Len(included) :
              included[i] = Glfw3NativeH => \E j \in 1..(i - 1) : included[j] = Glfw3H

C9_Witness ==
    /\ Shipped /\ Len(stack) > 1 /\ Top.file = Glfw3NativeH /\ decls # <<>>
    /\ macros = SuppressionMacros \cup ExposureDefined

====
